---- MODULE Spec2Model ----
(***************************************************************************)
(* Generator status monitor: the monitor loop (core/monitor.py), the       *)
(* session ledger (database/repository.py), the frame source               *)
(* (hardware/camera.py), the detector result (detection/detector.py) and   *)
(* the notifier (notification/telegram.py).                                *)
(*                                                                         *)
(* Time is an integer clock `now` counted in units of 1/TicksPerSecond     *)
(* second.  REAL columns are kept exact as integers in a documented unit:  *)
(*   duration_hours           in units of 1/(3600*TicksPerSecond) hour     *)
(*   fuel rate, price, tank   in tenths (1.5 l/h is 15)                    *)
(*   fuel_consumption_liters  duration_hours * rate, in the product unit   *)
(* An optional (nullable) value is <<>> for NULL/None and <<v>> for v.     *)
(***************************************************************************)
EXTENDS Integers, Sequences, FiniteSets

VARIABLES
    \* ---- the ledger (the sqlite file) ----
    sessions,            \* generator_sessions, indexed by id (AUTOINCREMENT from 1)
    events,              \* generator_events
    fuel_config,         \* the fuel_config row with id = 1
    \* ---- wall clock ----
    now,
    \* ---- GeneratorMonitor fields ----
    current_state,       \* _current_state
    active_session_id,   \* _active_session_id
    is_running,          \* _is_running
    start_time,          \* _start_time
    state_change_count,  \* _state_change_count
    \* ---- control position and locals of the monitor thread ----
    pc,
    frame,               \* the frame pulled by get_frame() in this tick
    bright_pixels,       \* bright_pixels handed to _handle_state_change
    session_ret,         \* value returned by start_session, not yet stored
    stop_caller,         \* who called stop(): "loop" (monitor.py:123) or "main" (main.py:60,65)
    \* ---- collaborators ----
    connected,           \* IPCamera.is_connected()
    notified,            \* what the notifier was asked to send, in order
    \* ---- ledger clients (processes that call the repository directly) ----
    client,
    \* ---- history (not program state) ----
    ticks,               \* loop iterations begun
    faults,              \* environment faults injected so far
    classified,          \* states classified by _process_frame, in order
    handled,             \* <<state, bright_pixels>> of every _handle_state_change call
    recovered,           \* what get_active_session() returned in start()
    end_calls,           \* ids the monitor passed to end_session, in order
    start_calls,         \* position in `classified` at each start_session call
    interrupted_at,      \* pc at which the stop signal was taken
    \* ---- main() and the objects it constructs ----
    main_pc,             \* position of main() (main.py:49-57)
    detection_config,    \* DetectionConfig handed to BrightSpotDetector
    telegram_config,     \* TelegramConfig handed to TelegramNotifier
    det_frame,           \* the frame of the last detect() call
    det_result,          \* what that call returned
    \* ---- StatisticsService ----
    daily_stats,         \* what the last _get_stats_for_date call returned
    month_stats,         \* what the last get_month_stats call returned
    month_report,        \* what _format_month_report made of it
    \* ---- the fuel_config table ----
    fuel_rows,           \* ids of the rows of table fuel_config
    fuel_read,           \* what the last get_fuel_config call returned
    fuel_updated         \* history: argument of the last committed update_fuel_config

ledger  == <<sessions, events, fuel_config>>
monitor == <<current_state, active_session_id, is_running, start_time,
             state_change_count, pc, frame, bright_pixels, session_ret,
             stop_caller, connected, notified>>
\* what neither the monitor nor the ledger clients touch
outside == <<main_pc, detection_config, telegram_config, det_frame, det_result,
             daily_stats, month_stats, month_report, fuel_rows, fuel_read,
             fuel_updated>>
history == <<ticks, faults, classified, handled, recovered, end_calls,
             start_calls, interrupted_at>>
vars    == <<sessions, events, fuel_config, now, current_state,
             active_session_id, is_running, start_time, state_change_count,
             pc, frame, bright_pixels, session_ret, stop_caller, connected,
             notified, client, ticks, faults, classified, handled, recovered,
             end_calls, start_calls, interrupted_at, main_pc,
             detection_config, telegram_config, det_frame, det_result,
             daily_stats, month_stats, month_report, fuel_rows, fuel_read,
             fuel_updated>>

----------------------------------------------------------------------------
\* Bounds of the model.

MaxTicks == 5           \* loop iterations of the monitor
MaxFaults == 1          \* injected environment faults (storage, snapshot)
TicksPerSecond == 2     \* clock resolution
MaxSessions == 1        \* sessions in the ledger of the ledger specification
MaxLedgerTime == 1      \* clock ticks in the ledger specification
MaxEndCalls == 2        \* end_session calls in the ledger specification

\* Program constants.

check_interval == 5      \* seconds
reconnect_delay == 30    \* seconds
backoff_delay == 10      \* seconds
min_bright_pixels == 50

----------------------------------------------------------------------------
\* Optional values.

Null == <<>>
Some(v) == <<v>>
Val(o) == o[1]

Max(a, b) == IF a >= b THEN a ELSE b

\* GeneratorState
UNKNOWN == "unknown"
ON == "on"
OFF == "off"

----------------------------------------------------------------------------
\* The detector's result for a frame.  A frame is abstracted by the two
\* bright-pixel counts its ROI yields and by whether processing it faults.

Frames ==
    [ok : BOOLEAN, gray : {0, min_bright_pixels - 1}, red : {0, min_bright_pixels}]

detect(f) ==
    IF ~f.ok
    THEN <<FALSE, 0>>
    ELSE LET bp == Max(f.gray, f.red)
         IN  <<bp >= min_bright_pixels, bp>>

----------------------------------------------------------------------------
\* The detector on concrete frames (detection/detector.py) and the
\* configurations it and the notifier validate (config/settings.py).

FrameWidth == 2         \* columns of a frame
FrameHeight == 1        \* rows of a frame

Min(a, b) == IF a <= b THEN a ELSE b

\* A pixel of a colour frame is <<b, g, r>>; of a single-channel frame, its
\* value.  A frame is None ("none") or has rows of pixels.
BgrPixels == {<<0, 0, 0>>, <<255, 255, 255>>, <<10, 250, 140>>, <<0, 0, 200>>}
GrayPixels == {0, 190, 255}
NoFrame == [kind |-> "none", rows |-> <<>>]
DetFrames ==
    {NoFrame}
    \cup {[kind |-> "bgr", rows |-> r] :
             r \in [1..FrameHeight -> [1..FrameWidth -> BgrPixels]]}
    \cup {[kind |-> "gray", rows |-> r] :
             r \in [1..FrameHeight -> [1..FrameWidth -> GrayPixels]]}

\* cv2.COLOR_BGR2GRAY on 8-bit pixels: fixed-point weights, rounded.
bgr2gray(px) == (px[3] * 4899 + px[2] * 9617 + px[1] * 1868 + 8192) \div 16384

\* Python's seq[start:stop]: a negative bound counts from the end, and both
\* bounds are clipped to the sequence.
slice_bound(i, n) == IF i < 0 THEN Max(i + n, 0) ELSE Min(i, n)
slice(seq, start, stop) ==
    SubSeq(seq, slice_bound(start, Len(seq)) + 1, slice_bound(stop, Len(seq)))

\* _extract_roi: frame[y : y + h, x : x + w] of an array.
extract_roi(cfg, f) ==
    LET x == cfg.roi[1]
        y == cfg.roi[2]
        w == cfg.roi[3]
        h == cfg.roi[4]
        rows == slice(f.rows, y, y + h)
    IN  [kind |-> f.kind,
         rows |-> [i \in DOMAIN rows |-> slice(rows[i], x, x + w)]]

IsEmptyRoi(roi) == roi.rows = <<>> \/ roi.rows[1] = <<>>
RoiCells(roi) ==
    IF IsEmptyRoi(roi) THEN {} ELSE (DOMAIN roi.rows) \X (DOMAIN roi.rows[1])

Raised == Null
gray_value(px) == px
red_value(px) == px[3]

\* The single-channel image thresholded: cvtColor(BGR2GRAY) of a colour
\* crop, the crop itself when it is already gray, or channel 2 ([:, :, 2]).
channel_value(channel, px) ==
    CASE channel = "bgr2gray" -> bgr2gray(px)
      [] channel = "gray" -> gray_value(px)
      [] channel = "red" -> red_value(px)

\* cv2.threshold(..., THRESH_BINARY) then cv2.countNonZero: the pixels
\* whose value is greater than the threshold.
count_above(roi, channel, thresh) ==
    Cardinality({c \in RoiCells(roi) :
                    channel_value(channel, roi.rows[c[1]][c[2]]) > thresh})

\* _detect_in_grayscale: the possible outcomes, Some(count) or Raised.  cvtColor
\* refuses an empty array; whether threshold does on an empty
\* single-channel array depends on the OpenCV build.
detect_in_grayscale(cfg, roi) ==
    IF roi.kind = "bgr"
    THEN IF IsEmptyRoi(roi)
         THEN {Raised}
         ELSE {Some(count_above(roi, "bgr2gray", cfg.bright_threshold))}
    ELSE IF IsEmptyRoi(roi)
         THEN {Raised, Some(0)}
         ELSE {Some(count_above(roi, "gray", cfg.bright_threshold))}

\* _detect_in_red_channel
detect_in_red_channel(cfg, roi) ==
    IF roi.kind # "bgr"
    THEN 0
    ELSE count_above(roi, "red", cfg.bright_threshold - 50)

\* BrightSpotDetector.detect: the results it may return for a frame.
BrightSpotDetector_detect(cfg, f) ==
    IF f.kind = "none"
    THEN {<<FALSE, 0>>}
    ELSE LET roi == extract_roi(cfg, f)
         IN  {IF g = Raised
              THEN <<FALSE, 0>>
              ELSE LET bp == Max(Val(g), detect_in_red_channel(cfg, roi))
                   IN  <<bp >= cfg.min_bright_pixels, bp>>
              : g \in detect_in_grayscale(cfg, roi)}

\* A validate that lets a zero-width or zero-height ROI through.
DetectionConfig_validate_negative_only(cfg) ==
    /\ ~(cfg.roi[3] < 0 \/ cfg.roi[4] < 0)
    /\ (0 <= cfg.bright_threshold /\ cfg.bright_threshold <= 255)
    /\ ~(cfg.min_bright_pixels < 0)

\* DetectionConfig.validate: TRUE when it raises no ValueError.
DetectionConfig_validate(cfg) ==
    /\ ~(cfg.roi[3] <= 0 \/ cfg.roi[4] <= 0)
    /\ (0 <= cfg.bright_threshold /\ cfg.bright_threshold <= 255)
    /\ ~(cfg.min_bright_pixels < 0)

\* TelegramConfig.validate: TRUE when it raises no ValueError.
TelegramConfig_validate(cfg) ==
    /\ ~(cfg.bot_token = "" \/ cfg.bot_token = "YOUR_BOT_TOKEN_HERE")
    /\ ~(cfg.chat_id = "" \/ cfg.chat_id = "YOUR_CHAT_ID_HERE")

\* main(): the detection configuration it builds, and a configured
\* environment.
MainDetectionConfig ==
    [roi |-> <<485, 435, 40, 20>>, bright_threshold |-> 190,
     min_bright_pixels |-> min_bright_pixels]
EnvTelegramConfig == [bot_token |-> "token", chat_id |-> "chat"]

\* The configurations a detector or notifier may be constructed with.
DetectionConfigs ==
    [roi : ((0 - FrameWidth)..FrameWidth) \X {0, FrameHeight} \X (0..FrameWidth)
               \X (0..FrameHeight),
     bright_threshold : {-1, 0, 190, 255, 256},
     min_bright_pixels : {-1, 0, 1, FrameWidth}]
TelegramConfigs ==
    [bot_token : {"", "YOUR_BOT_TOKEN_HERE", "token"},
     chat_id : {"", "YOUR_CHAT_ID_HERE", "chat"}]

----------------------------------------------------------------------------
\* The ledger.

\* _parse_db_datetime: NULL stays None, a stored timestamp is read back.
parse_db_datetime(db_val) == IF db_val = Null THEN Null ELSE db_val

NewSession(t, bp) ==
    [start_time |-> t, end_time |-> Null, duration_seconds |-> Null,
     duration_hours |-> Null, fuel_consumption_liters |-> Null,
     start_bright_pixels |-> bp, end_bright_pixels |-> Null, notes |-> Null]

\* start_session: INSERT, returns lastrowid.
start_session(ss, t, bp) ==
    [sessions |-> Append(ss, NewSession(t, bp)), id |-> Len(ss) + 1]

\* SELECT start_time FROM generator_sessions WHERE id = ? ; fetchone()
select_start_time(ss, id) ==
    IF id \in DOMAIN ss THEN Some(ss[id].start_time) ELSE Null

duration_seconds_of(start, end) == (end - start) \div TicksPerSecond
duration_hours_of(start, end) == end - start
\* Fuel charged by the started hour.
fuel_consumption_per_started_hour(hours, cfg) ==
    Max(hours, 1) * cfg.fuel_rate_per_hour

fuel_consumption_of(hours, cfg) == hours * cfg.fuel_rate_per_hour

\* An UPDATE that sets end_time and leaves the computed columns for later.
update_session_end_time_only(ss, id, start, end, cfg, bp, notes) ==
    [ss EXCEPT ![id] =
        [@ EXCEPT !.end_time = Some(end),
                  !.end_bright_pixels = Some(bp),
                  !.notes = notes]]

\* Mutant: fuel is computed with the default rate, not the configured one.
update_session_default_rate(ss, id, start, end, cfg, bp, notes) ==
    [ss EXCEPT ![id] =
        [@ EXCEPT !.end_time = Some(end),
                  !.duration_seconds = Some(duration_seconds_of(start, end)),
                  !.duration_hours = Some(duration_hours_of(start, end)),
                  !.fuel_consumption_liters =
                      Some(duration_hours_of(start, end) * 15),
                  !.end_bright_pixels = Some(bp),
                  !.notes = notes]]

\* UPDATE generator_sessions SET ... WHERE id = ?
update_session(ss, id, start, end, cfg, bp, notes) ==
    [ss EXCEPT ![id] =
        [@ EXCEPT !.end_time = Some(end),
                  !.duration_seconds = Some(duration_seconds_of(start, end)),
                  !.duration_hours = Some(duration_hours_of(start, end)),
                  !.fuel_consumption_liters =
                      Some(fuel_consumption_of(duration_hours_of(start, end), cfg)),
                  !.end_bright_pixels = Some(bp),
                  !.notes = notes]]

\* end_session run without interleaving: the monitor is the only writer.
end_session(ss, cfg, t, id, bp, notes) ==
    LET row == select_start_time(ss, id)
    IN  IF row = Null
        THEN ss
        ELSE update_session(ss, id, Val(parse_db_datetime(row)), t, cfg, bp, notes)

IsOpen(s) == s.end_time = Null
OpenIds(ss) == {i \in DOMAIN ss : IsOpen(ss[i])}

\* Mutant: ORDER BY start_time ASC, the oldest open session.
get_active_session_oldest(ss) ==
    IF OpenIds(ss) = {}
    THEN {Null}
    ELSE {Some(i) : i \in {k \in OpenIds(ss) :
                     \A j \in OpenIds(ss) : ss[k].start_time <= ss[j].start_time}}

\* get_active_session: the results "ORDER BY start_time DESC LIMIT 1" may
\* give among the open sessions; {Null} when there is none.
get_active_session(ss) ==
    IF OpenIds(ss) = {}
    THEN {Null}
    ELSE {Some(i) : i \in {k \in OpenIds(ss) :
                     \A j \in OpenIds(ss) : ss[j].start_time <= ss[k].start_time}}

\* add_event: the INSERT names five columns and binds four values, and one
\* of the columns is not in the table; sqlite refuses the statement.
EventTableColumns ==
    {"id", "timestamp", "event_type", "bright_pixels", "message", "created_at"}
AddEventColumns ==
    <<"timestamp", "event_type", "bright_pixels", "snapshot_path", "message">>
AddEventPlaceholders == 4

add_event_statement_ok ==
    /\ \A i \in DOMAIN AddEventColumns : AddEventColumns[i] \in EventTableColumns
    /\ Len(AddEventColumns) = AddEventPlaceholders

add_event(evs, t, event_type, bp, message) ==
    IF add_event_statement_ok
    THEN [ok |-> TRUE,
          events |-> Append(evs, [timestamp |-> t, event_type |-> event_type,
                                  bright_pixels |-> bp, message |-> message])]
    ELSE [ok |-> FALSE, events |-> evs]

\* _init_database: the default fuel_config row.
DefaultFuelConfig ==
    [fuel_rate_per_hour |-> 15, fuel_tank_capacity |-> 200,
     fuel_price_per_liter |-> 500]

\* _init_database, lines 91-98: the default row is inserted when the table
\* has no row with id = 1.
init_database_rows(rows) == IF 1 \notin rows THEN rows \cup {1} ELSE rows
init_database_config(rows, row) == IF 1 \notin rows THEN DefaultFuelConfig ELSE row

\* get_fuel_config: the row with id = 1, or FuelConfig(1.5, 20.0, 50.0) when
\* there is none.
get_fuel_config(rows, row) ==
    IF 1 \in rows
    THEN row
    ELSE [fuel_rate_per_hour |-> 15, fuel_tank_capacity |-> 200,
          fuel_price_per_liter |-> 500]

\* Mutant: the UPDATE sets the rate and forgets the other two columns.
update_fuel_config_rate_only(rows, row, config) ==
    IF 1 \in rows
    THEN [row EXCEPT !.fuel_rate_per_hour = config.fuel_rate_per_hour]
    ELSE row

\* update_fuel_config: UPDATE fuel_config SET ... WHERE id = 1, the row with
\* id = 1 afterwards.
update_fuel_config(rows, row, config) == IF 1 \in rows THEN config ELSE row

----------------------------------------------------------------------------
\* Statistics (database/statistics.py).

StatsLimit == 1000      \* get_all_sessions(limit=1000)

\* The calendar date of a clock value.
TicksPerDay == 86400 * TicksPerSecond
date_of(t) == t \div TicksPerDay

\* Sum of seq[lo..hi], by halves.
RECURSIVE SumRange(_, _, _)
SumRange(seq, lo, hi) ==
    IF lo > hi
    THEN 0
    ELSE IF lo = hi
         THEN seq[lo]
         ELSE LET mid == (lo + hi) \div 2
              IN  SumRange(seq, lo, mid) + SumRange(seq, mid + 1, hi)
Sum(seq) == SumRange(seq, 1, Len(seq))

\* get_session: SELECT * ... WHERE id = ?
get_session(ss, id) == IF id \in DOMAIN ss THEN Some(ss[id]) ELSE Null

\* get_all_sessions(limit): ORDER BY start_time DESC LIMIT ?, the ids of the
\* rows it returns.  Rows are in start_time order by id, since start_session
\* stamps the clock on insert: the rows kept are the `limit` last ones.
get_all_sessions(ss, limit) == (Max(Len(ss) - limit, 0) + 1)..Len(ss)

\* Python's `value or 0` on a nullable column.
or_zero(o) == IF o = Null THEN 0 ELSE Val(o)

\* Sum of f over the interval rows.
SumOver(f, rows) ==
    IF rows = {}
    THEN 0
    ELSE SumRange(f, CHOOSE i \in rows : i - 1 \notin rows,
                     CHOOSE i \in rows : i + 1 \notin rows)

\* _get_stats_for_date.  avg_session_duration is the fraction
\* <<total_runtime, count>>, <<0, 1>> when there is no session.
get_stats_for_date(ss, cfg, date) ==
    LET rows == get_all_sessions(ss, StatsLimit)
        in_day(i) == date_of(ss[i].start_time) = date
        runtime == SumOver([i \in rows |->
                              IF in_day(i) THEN or_zero(ss[i].duration_hours)
                              ELSE 0], rows)
        fuel == SumOver([i \in rows |->
                           IF in_day(i)
                           THEN or_zero(ss[i].fuel_consumption_liters)
                           ELSE 0], rows)
        count == Cardinality({i \in rows : in_day(i)})
    IN  [date |-> date,
         total_runtime_hours |-> runtime,
         total_fuel_liters |-> fuel,
         total_cost |-> fuel * cfg.fuel_price_per_liter,
         sessions_count |-> count,
         avg_session_duration |->
             IF count > 0 THEN <<runtime, count>> ELSE <<0, 1>>]

\* get_today_stats
get_today_stats(ss, cfg, t) == get_stats_for_date(ss, cfg, date_of(t))

\* The calendar month of a date (start_time.year, start_time.month): day 0
\* is the 31st of a month of 31 days, day 1 the first of the next month.
month_of(date) == (date + 30) \div 31

\* sorted(..., key=lambda x: x.date) of a set of dates.
RECURSIVE SortedDates(_)
SortedDates(dates) ==
    IF dates = {}
    THEN <<>>
    ELSE LET first == CHOOSE d \in dates : \A e \in dates : d <= e
         IN  <<first>> \o SortedDates(dates \ {first})

\* get_month_stats: the totals of the month's sessions and one DailyStats
\* per date that has a session, in date order.
get_month_stats(ss, cfg, month) ==
    LET rows == get_all_sessions(ss, StatsLimit)
        in_month(i) == month_of(date_of(ss[i].start_time)) = month
        month_sessions == {i \in rows : in_month(i)}
        total_runtime == SumOver([i \in rows |->
                                    IF in_month(i)
                                    THEN or_zero(ss[i].duration_hours)
                                    ELSE 0], rows)
        total_fuel == SumOver([i \in rows |->
                                 IF in_month(i)
                                 THEN or_zero(ss[i].fuel_consumption_liters)
                                 ELSE 0], rows)
        dates == SortedDates({date_of(ss[i].start_time) : i \in month_sessions})
        on(i, d) == in_month(i) /\ date_of(ss[i].start_time) = d
        runtime(d) == SumOver([i \in rows |->
                                 IF on(i, d) THEN or_zero(ss[i].duration_hours)
                                 ELSE 0], rows)
        fuel(d) == SumOver([i \in rows |->
                              IF on(i, d)
                              THEN or_zero(ss[i].fuel_consumption_liters)
                              ELSE 0], rows)
        count(d) == Cardinality({i \in rows : on(i, d)})
    IN  [month |-> month,
         total_runtime_hours |-> total_runtime,
         total_fuel_liters |-> total_fuel,
         total_cost |-> total_fuel * cfg.fuel_price_per_liter,
         sessions_count |-> Cardinality(month_sessions),
         daily_stats |->
             [k \in DOMAIN dates |->
                 [date |-> dates[k],
                  total_runtime_hours |-> runtime(dates[k]),
                  total_fuel_liters |-> fuel(dates[k]),
                  total_cost |-> fuel(dates[k]) * cfg.fuel_price_per_liter,
                  sessions_count |-> count(dates[k]),
                  avg_session_duration |->
                      IF count(dates[k]) > 0
                      THEN <<runtime(dates[k]), count(dates[k])>>
                      ELSE <<0, 1>>]]]

\* _format_month_report: the figures of the report; the average per day is
\* the fraction total_runtime_hours / max(len(daily_stats), 1).
format_month_report(stats) ==
    [month |-> stats.month,
     total_runtime_hours |-> stats.total_runtime_hours,
     total_fuel_liters |-> stats.total_fuel_liters,
     total_cost |-> stats.total_cost,
     sessions_count |-> stats.sessions_count,
     avg_per_day |-> <<stats.total_runtime_hours, Max(Len(stats.daily_stats), 1)>>]

----------------------------------------------------------------------------
\* Initial states: a fresh monitor object and idle ledger clients, over a
\* ledger that is empty or was left by an earlier run of the program with a
\* closed session or with one session still open (the run crashed).

Clients == {1, 2}
IdleClient ==
    [pc |-> "idle", id |-> 0, bp |-> 0, notes |-> Null, row |-> Null,
     end_time |-> 0, cfg |-> DefaultFuelConfig, saw_open |-> FALSE,
     calls |-> 0]

EarlierOpen == start_session(<<>>, 0, min_bright_pixels).sessions
EarlierClosed == end_session(EarlierOpen, DefaultFuelConfig, 1, 1, 0, Null)
InitLedgers == {<<>>, EarlierOpen, EarlierClosed}

Init ==
    /\ sessions \in InitLedgers
    /\ events = <<>>
    /\ fuel_config = DefaultFuelConfig
    /\ now = 2
    /\ current_state = UNKNOWN
    /\ active_session_id = Null
    /\ is_running = FALSE
    /\ start_time = Null
    /\ state_change_count = 0
    /\ pc = "init"
    /\ frame = Null
    /\ bright_pixels = 0
    /\ session_ret = Null
    /\ stop_caller = "none"
    /\ connected = FALSE
    /\ notified = <<>>
    /\ client = [c \in Clients |-> IdleClient]
    /\ ticks = 0
    /\ faults = 0
    /\ classified = <<>>
    /\ handled = <<>>
    /\ recovered = Null
    /\ end_calls = <<>>
    /\ start_calls = <<>>
    /\ interrupted_at = Null
    /\ main_pc = "monitor_built"
    /\ detection_config = MainDetectionConfig
    /\ telegram_config = EnvTelegramConfig
    /\ det_frame = Null
    /\ det_result = Null
    /\ daily_stats = Null
    /\ month_stats = Null
    /\ month_report = Null
    /\ fuel_rows = init_database_rows({})
    /\ fuel_read = Null
    /\ fuel_updated = Null

----------------------------------------------------------------------------
\* GeneratorMonitor.start

CanFault == faults < MaxFaults

\* start(): lines 63-76, get_active_session() succeeds.
Start ==
    /\ pc = "init"
    /\ \E a \in get_active_session(sessions) :
          /\ recovered' = a
          /\ active_session_id' = IF a # Null THEN a ELSE active_session_id
    /\ is_running' = TRUE
    /\ start_time' = Some(now)
    /\ pc' = "startup_notify"
    /\ UNCHANGED <<ledger, now, current_state, state_change_count, frame,
                   bright_pixels, session_ret, stop_caller, connected, notified,
                   client,
                   outside, ticks, faults, classified, handled, end_calls,
                   start_calls, interrupted_at>>

\* start(): get_active_session() raises sqlite3.Error, which leaves start()
\* and reaches the caller's handler, which calls stop().
StartFails ==
    /\ pc = "init"
    /\ CanFault
    /\ faults' = faults + 1
    /\ is_running' = TRUE
    /\ start_time' = Some(now)
    /\ pc' = "stop"
    /\ stop_caller' = "main"
    /\ UNCHANGED <<ledger, now, current_state, active_session_id,
                   state_change_count, frame, bright_pixels, session_ret,
                   connected, notified, client,
                   outside, ticks, classified, handled,
                   recovered, end_calls, start_calls, interrupted_at>>

Notification(kind, ok, count) ==
    [kind |-> kind, ok |-> ok, state_change_count |-> count]

\* _send_startup_notification; send_message returns True or False.
SendStartupNotification ==
    /\ pc = "startup_notify"
    /\ \E ok \in BOOLEAN :
          notified' = Append(notified, Notification("startup", ok, 0))
    /\ pc' = "loop"
    /\ UNCHANGED <<ledger, now, current_state, active_session_id, is_running,
                   start_time, state_change_count, frame, bright_pixels,
                   session_ret, stop_caller, connected, client,
                   outside, history>>

----------------------------------------------------------------------------
\* GeneratorMonitor._main_loop

\* Mutant: the loop has no handler, the exception leaves it.
LoopExceptionHandler_Propagates == "crashed"

\* Where an Exception raised inside the try block of the loop leads
\* (lines 125-127).
LoopExceptionHandler == "backoff"

\* An exception unwinds the tick: its locals are gone.
Raise ==
    /\ pc' = LoopExceptionHandler
    /\ frame' = Null
    /\ bright_pixels' = 0
    /\ session_ret' = Null

\* while self._is_running: ... if not self._camera.is_connected()
LoopHead ==
    /\ pc = "loop"
    /\ is_running
    /\ ticks < MaxTicks
    /\ ticks' = ticks + 1
    /\ pc' = IF connected THEN "get_frame" ELSE "connect"
    /\ UNCHANGED <<ledger, now, current_state, active_session_id, is_running,
                   start_time, state_change_count, frame, bright_pixels,
                   session_ret, stop_caller, connected, notified, client,
                   outside,
                   faults, classified, handled, recovered, end_calls,
                   start_calls, interrupted_at>>

\* self._camera.connect()
Connect ==
    /\ pc = "connect"
    /\ \E ok \in BOOLEAN :
          /\ connected' = ok
          /\ pc' = IF ok THEN "get_frame" ELSE "reconnect_sleep"
    /\ UNCHANGED <<ledger, now, current_state, active_session_id, is_running,
                   start_time, state_change_count, frame, bright_pixels,
                   session_ret, stop_caller, notified, client,
                   outside, history>>

\* self._camera.get_frame() returns a frame.
GetFrame ==
    /\ pc = "get_frame"
    /\ \E f \in Frames : frame' = Some(f)
    /\ pc' = "process"
    /\ UNCHANGED <<ledger, now, current_state, active_session_id, is_running,
                   start_time, state_change_count, bright_pixels, session_ret,
                   stop_caller, connected, notified, client,
                   outside, history>>

\* Mutant: a frame that could not be read makes the state unknown again.
GetFrameFails_ForgetsState ==
    /\ pc = "get_frame"
    /\ connected' = FALSE
    /\ current_state' = UNKNOWN
    /\ pc' = "reconnect_sleep"
    /\ UNCHANGED <<ledger, now, active_session_id, is_running,
                   start_time, state_change_count, frame, bright_pixels,
                   session_ret, stop_caller, notified, client,
                   outside, history>>

\* Mutant: a frame that could not be read leaves the capture as it is.
GetFrameFails_KeepsCapture ==
    /\ pc = "get_frame"
    /\ pc' = "reconnect_sleep"
    /\ UNCHANGED <<ledger, now, current_state, active_session_id, is_running,
                   start_time, state_change_count, frame, bright_pixels,
                   session_ret, stop_caller, connected, notified, client,
                   outside, history>>

\* get_frame() returns (False, None): disconnect, then wait.
GetFrameFails ==
    /\ pc = "get_frame"
    /\ connected' = FALSE
    /\ pc' = "reconnect_sleep"
    /\ UNCHANGED <<ledger, now, current_state, active_session_id, is_running,
                   start_time, state_change_count, frame, bright_pixels,
                   session_ret, stop_caller, notified, client,
                   outside, history>>

\* time.sleep(...) of the three kinds, then back to the loop head.
Sleep(at, seconds) ==
    /\ pc = at
    /\ now' = now + seconds * TicksPerSecond
    /\ pc' = "loop"
    /\ UNCHANGED <<ledger, current_state, active_session_id, is_running,
                   start_time, state_change_count, frame, bright_pixels,
                   session_ret, stop_caller, connected, notified, client,
                   outside,
                   history>>

SleepCheckInterval == Sleep("sleep", check_interval)
SleepReconnect == Sleep("reconnect_sleep", reconnect_delay)
Backoff == Sleep("backoff", backoff_delay)

----------------------------------------------------------------------------
\* GeneratorMonitor._process_frame

\* Mutant: a frame the detector could not process is classified UNKNOWN.
new_state_of_unknown_on_fault(f) ==
    IF ~f.ok THEN UNKNOWN ELSE IF detect(f)[1] THEN ON ELSE OFF

\* new_state (line 132)
new_state_of(f) == IF detect(f)[1] THEN ON ELSE OFF

\* Mutant: the comparison with the current state is lost.
fires_transition_always(cur, new) == cur = UNKNOWN \/ cur = new \/ cur # new

\* Whether _process_frame calls _handle_state_change (lines 135-141).
fires_transition(cur, new) == cur = UNKNOWN \/ cur # new

\* Mutant: the seeding assignment is counted as a change.
next_state_change_count_seeded(cur, new, count) ==
    IF cur # new THEN count + 1 ELSE count

\* _state_change_count after _process_frame (line 140).
next_state_change_count(cur, new, count) ==
    IF cur = UNKNOWN THEN count
    ELSE IF cur # new THEN count + 1
    ELSE count

ProcessFrame ==
    /\ pc = "process"
    /\ LET f == Val(frame)
           new_state == new_state_of(f)
       IN  /\ classified' = Append(classified, new_state)
           /\ state_change_count' =
                  next_state_change_count(current_state, new_state, state_change_count)
           /\ IF fires_transition(current_state, new_state)
              THEN /\ current_state' = new_state
                   /\ bright_pixels' = detect(f)[2]
                   /\ handled' = Append(handled, <<new_state, detect(f)[2]>>)
                   /\ pc' = "hsc_snapshot"
                   /\ UNCHANGED frame
              ELSE /\ pc' = "sleep"
                   /\ frame' = Null
                   /\ UNCHANGED <<current_state, bright_pixels, handled>>
    /\ UNCHANGED <<ledger, now, active_session_id, is_running, start_time,
                   session_ret, stop_caller, connected, notified, client,
                   outside,
                   ticks, faults, recovered, end_calls, start_calls,
                   interrupted_at>>

----------------------------------------------------------------------------
\* GeneratorMonitor._handle_state_change

\* visualize() and _save_snapshot() (lines 154-159).
SaveSnapshot ==
    /\ pc = "hsc_snapshot"
    /\ pc' = "hsc_db"
    /\ UNCHANGED <<ledger, now, current_state, active_session_id, is_running,
                   start_time, state_change_count, frame, bright_pixels,
                   session_ret, stop_caller, connected, notified, client,
                   outside,
                   history>>

\* Rendering or writing the snapshot raises.
SaveSnapshotFails ==
    /\ pc = "hsc_snapshot"
    /\ CanFault
    /\ faults' = faults + 1
    /\ Raise
    /\ UNCHANGED <<ledger, now, current_state, active_session_id, is_running,
                   start_time, state_change_count, stop_caller, connected,
                   notified, client,
                   outside, ticks, classified, handled, recovered,
                   end_calls, start_calls, interrupted_at>>

\* is_on: self._db.start_session(bright_pixels) commits and returns (line 164,
\* right-hand side).
HscStartSession ==
    /\ pc = "hsc_db"
    /\ current_state = ON
    /\ LET r == start_session(sessions, now, bright_pixels)
       IN  /\ sessions' = r.sessions
           /\ session_ret' = Some(r.id)
    /\ start_calls' = Append(start_calls, Len(classified))
    /\ pc' = "hsc_assign"
    /\ UNCHANGED <<events, fuel_config, now, current_state, active_session_id,
                   is_running, start_time, state_change_count, frame,
                   bright_pixels, stop_caller, connected, notified, client,
                   outside,
                   ticks, faults, classified, handled, recovered, end_calls,
                   interrupted_at>>

\* start_session raises sqlite3.Error: rolled back, nothing stored.
HscStartSessionFails ==
    /\ pc = "hsc_db"
    /\ current_state = ON
    /\ CanFault
    /\ faults' = faults + 1
    /\ start_calls' = Append(start_calls, Len(classified))
    /\ Raise
    /\ UNCHANGED <<ledger, now, current_state, active_session_id, is_running,
                   start_time, state_change_count, stop_caller, connected,
                   notified, client,
                   outside, ticks, classified, handled, recovered,
                   end_calls, interrupted_at>>

\* self._active_session_id = <returned id> (line 164, the store).
HscAssign ==
    /\ pc = "hsc_assign"
    /\ active_session_id' = session_ret
    /\ session_ret' = Null
    /\ pc' = "hsc_event"
    /\ UNCHANGED <<ledger, now, current_state, is_running, start_time,
                   state_change_count, frame, bright_pixels, stop_caller,
                   connected, notified, client, outside, history>>

\* not is_on, a session is held: end_session commits (line 169).
HscEndSession ==
    /\ pc = "hsc_db"
    /\ current_state # ON
    /\ active_session_id # Null
    /\ sessions' = end_session(sessions, fuel_config, now,
                               Val(active_session_id), bright_pixels, Null)
    /\ end_calls' = Append(end_calls, Val(active_session_id))
    /\ pc' = "hsc_clear"
    /\ UNCHANGED <<events, fuel_config, now, current_state, active_session_id,
                   is_running, start_time, state_change_count, frame,
                   bright_pixels, session_ret, stop_caller, connected,
                   notified, client,
                   outside, ticks, faults, classified, handled,
                   recovered, start_calls, interrupted_at>>

\* end_session raises sqlite3.Error: rolled back, the handle is kept.
HscEndSessionFails ==
    /\ pc = "hsc_db"
    /\ current_state # ON
    /\ active_session_id # Null
    /\ CanFault
    /\ faults' = faults + 1
    /\ end_calls' = Append(end_calls, Val(active_session_id))
    /\ Raise
    /\ UNCHANGED <<ledger, now, current_state, active_session_id, is_running,
                   start_time, state_change_count, stop_caller, connected,
                   notified, client,
                   outside, ticks, classified, handled, recovered,
                   start_calls, interrupted_at>>

\* not is_on, no session held: line 168 is false.
HscNoSession ==
    /\ pc = "hsc_db"
    /\ current_state # ON
    /\ active_session_id = Null
    /\ pc' = "hsc_event"
    /\ UNCHANGED <<ledger, now, current_state, active_session_id, is_running,
                   start_time, state_change_count, frame, bright_pixels,
                   session_ret, stop_caller, connected, notified, client,
                   outside,
                   history>>

\* The handle kept after the session was closed (line 170 left out).
HscClear_KeepsHandle ==
    /\ pc = "hsc_clear"
    /\ pc' = "hsc_event"
    /\ UNCHANGED <<ledger, now, current_state, active_session_id, is_running,
                   start_time, state_change_count, frame, bright_pixels,
                   session_ret, stop_caller, connected, notified, client,
                   outside, history>>

\* self._active_session_id = None (line 170).
HscClear ==
    /\ pc = "hsc_clear"
    /\ active_session_id' = Null
    /\ pc' = "hsc_event"
    /\ UNCHANGED <<ledger, now, current_state, is_running, start_time,
                   state_change_count, frame, bright_pixels, session_ret,
                   stop_caller, connected, notified, client,
                   outside, history>>

\* _create_state_message_with_stats: the parts of the message.  The
\* statistics of the last session are added when the state is OFF, the
\* handle is set at that moment (line 201) and the session it names has a
\* non-zero duration_hours; today's aggregate when today has sessions.
create_state_message_with_stats(is_on, handle, ss, cfg, t) ==
    LET session == IF handle = Null THEN Null ELSE get_session(ss, Val(handle))
        today_stats == get_today_stats(ss, cfg, t)
    IN  [is_on |-> is_on,
         last_session |->
             IF ~is_on /\ handle # Null /\ session # Null
                /\ or_zero(Val(session).duration_hours) # 0
             THEN Some([duration_hours |-> Val(Val(session).duration_hours),
                        fuel_consumption_liters |->
                            Val(Val(session).fuel_consumption_liters),
                        fuel_cost |->
                            Val(Val(session).fuel_consumption_liters)
                                * cfg.fuel_price_per_liter])
             ELSE Null,
         today |->
             IF today_stats.sessions_count > 0
             THEN Some([total_runtime_hours |-> today_stats.total_runtime_hours,
                        total_fuel_liters |-> today_stats.total_fuel_liters,
                        total_cost |-> today_stats.total_cost])
             ELSE Null]

\* The text notification of a state change, with its message.
StateNotification(ok, message) ==
    [kind |-> "state_text", ok |-> ok, state_change_count |-> 0,
     message |-> message]

\* add_event (lines 165, 171) and, when it returns, the rest of the handler:
\* the message is composed and send_message, send_image are called
\* (lines 174-181); then _process_frame returns to the loop.
HscAddEvent ==
    /\ pc = "hsc_event"
    /\ LET r == add_event(events, now,
                          IF current_state = ON THEN "ON" ELSE "OFF",
                          bright_pixels, "state changed")
       IN  IF r.ok
           THEN /\ events' = r.events
                /\ \E okm, oki \in BOOLEAN :
                      notified' = notified \o
                          <<StateNotification(okm,
                                create_state_message_with_stats(
                                    current_state = ON, active_session_id,
                                    sessions, fuel_config, now)),
                            Notification("state_image", oki, 0)>>
                /\ pc' = "sleep"
                /\ frame' = Null
                /\ bright_pixels' = 0
                /\ UNCHANGED session_ret
           ELSE /\ Raise
                /\ UNCHANGED <<events, notified>>
    /\ UNCHANGED <<sessions, fuel_config, now, current_state,
                   active_session_id, is_running, start_time,
                   state_change_count, stop_caller, connected, client,
                   outside,
                   history>>

----------------------------------------------------------------------------
\* The stop signal and GeneratorMonitor.stop

StartPcs == {"startup_notify"}
TickPcs == {"connect", "get_frame", "process", "hsc_snapshot", "hsc_db",
            "hsc_assign", "hsc_clear", "hsc_event"}
BetweenTicksPcs == {"loop", "sleep", "reconnect_sleep", "backoff"}
StopPcs == {"stop", "stop_disconnect", "stop_notify", "stopped", "crashed"}

\* KeyboardInterrupt is raised in the monitor thread wherever it is.  Inside
\* the try block it is caught at lines 121-124; in the handler's sleep
\* (line 127) and in start() before the loop it reaches the caller, whose
\* handler calls stop() as well.
Interrupt ==
    /\ pc \in StartPcs \cup TickPcs \cup BetweenTicksPcs
    /\ interrupted_at = Null
    /\ interrupted_at' = Some(pc)
    /\ stop_caller' = IF pc \in {"startup_notify", "backoff"} THEN "main" ELSE "loop"
    /\ pc' = "stop"
    /\ frame' = Null
    /\ bright_pixels' = 0
    /\ session_ret' = Null
    /\ UNCHANGED <<ledger, now, current_state, active_session_id, is_running,
                   start_time, state_change_count, connected, notified, client,
                   outside,
                   ticks, faults, classified, handled, recovered, end_calls,
                   start_calls>>

StopNote == Some("system stopped")

\* stop(): lines 83-92, end_session (if any) commits.
Stop ==
    /\ pc = "stop"
    /\ is_running' = FALSE
    /\ IF active_session_id # Null
       THEN /\ sessions' = end_session(sessions, fuel_config, now,
                                       Val(active_session_id), 0, StopNote)
            /\ end_calls' = Append(end_calls, Val(active_session_id))
       ELSE UNCHANGED <<sessions, end_calls>>
    /\ pc' = "stop_disconnect"
    /\ UNCHANGED <<events, fuel_config, now, current_state, active_session_id,
                   start_time, state_change_count, frame, bright_pixels,
                   session_ret, stop_caller, connected, notified, client,
                   outside,
                   ticks, faults, classified, handled, recovered, start_calls,
                   interrupted_at>>

\* stop(): end_session raises.  Called from the loop's handler, the error
\* leaves start() and the caller's handler calls stop() once more; called
\* from there, it ends the process.
StopEndSessionFails ==
    /\ pc = "stop"
    /\ active_session_id # Null
    /\ CanFault
    /\ faults' = faults + 1
    /\ is_running' = FALSE
    /\ end_calls' = Append(end_calls, Val(active_session_id))
    /\ IF stop_caller = "loop"
       THEN pc' = "stop" /\ stop_caller' = "main"
       ELSE pc' = "crashed" /\ UNCHANGED stop_caller
    /\ UNCHANGED <<ledger, now, current_state, active_session_id, start_time,
                   state_change_count, frame, bright_pixels, session_ret,
                   connected, notified, client,
                   outside, ticks, classified, handled,
                   recovered, start_calls, interrupted_at>>

\* self._camera.disconnect() (line 94)
StopDisconnect ==
    /\ pc = "stop_disconnect"
    /\ connected' = FALSE
    /\ pc' = "stop_notify"
    /\ UNCHANGED <<ledger, now, current_state, active_session_id, is_running,
                   start_time, state_change_count, frame, bright_pixels,
                   session_ret, stop_caller, notified, client,
                   outside, history>>

\* _send_shutdown_notification (lines 255-270)
StopNotify ==
    /\ pc = "stop_notify"
    /\ IF start_time # Null
       THEN \E ok \in BOOLEAN :
               notified' = Append(notified,
                   Notification("shutdown", ok, state_change_count))
       ELSE UNCHANGED notified
    /\ pc' = "stopped"
    /\ UNCHANGED <<ledger, now, current_state, active_session_id, is_running,
                   start_time, state_change_count, frame, bright_pixels,
                   session_ret, stop_caller, connected, client,
                   outside, history>>

----------------------------------------------------------------------------
\* The monitor program.

Next ==
    \/ Start
    \/ StartFails
    \/ SendStartupNotification
    \/ LoopHead
    \/ Connect
    \/ GetFrame
    \/ GetFrameFails
    \/ SleepCheckInterval
    \/ SleepReconnect
    \/ Backoff
    \/ ProcessFrame
    \/ SaveSnapshot
    \/ SaveSnapshotFails
    \/ HscStartSession
    \/ HscStartSessionFails
    \/ HscAssign
    \/ HscEndSession
    \/ HscEndSessionFails
    \/ HscNoSession
    \/ HscClear
    \/ HscAddEvent
    \/ Interrupt
    \/ Stop
    \/ StopEndSessionFails
    \/ StopDisconnect
    \/ StopNotify

Spec == Init /\ [][Next]_vars

----------------------------------------------------------------------------
\* The monitor started over a ledger that earlier runs left with more than
\* one session: two sessions still open (a run that started a session while
\* holding a recovered one, then crashed), an open session followed by a
\* closed one, and two closed sessions.

EarlierTwoOpen == start_session(EarlierOpen, 1, min_bright_pixels).sessions
EarlierOpenThenClosed ==
    end_session(EarlierTwoOpen, DefaultFuelConfig, 1, 2, 0, Null)
EarlierTwoClosed ==
    end_session(EarlierOpenThenClosed, DefaultFuelConfig, 1, 1, 0, StopNote)
RecoveryLedgers == {EarlierTwoOpen, EarlierOpenThenClosed, EarlierTwoClosed}

InitRecovery ==
    /\ sessions \in RecoveryLedgers
    /\ events = <<>>
    /\ fuel_config = DefaultFuelConfig
    /\ now = 2
    /\ current_state = UNKNOWN
    /\ active_session_id = Null
    /\ is_running = FALSE
    /\ start_time = Null
    /\ state_change_count = 0
    /\ pc = "init"
    /\ frame = Null
    /\ bright_pixels = 0
    /\ session_ret = Null
    /\ stop_caller = "none"
    /\ connected = FALSE
    /\ notified = <<>>
    /\ client = [c \in Clients |-> IdleClient]
    /\ ticks = 0
    /\ faults = 0
    /\ classified = <<>>
    /\ handled = <<>>
    /\ recovered = Null
    /\ end_calls = <<>>
    /\ start_calls = <<>>
    /\ interrupted_at = Null
    /\ main_pc = "monitor_built"
    /\ detection_config = MainDetectionConfig
    /\ telegram_config = EnvTelegramConfig
    /\ det_frame = Null
    /\ det_result = Null
    /\ daily_stats = Null
    /\ month_stats = Null
    /\ month_report = Null
    /\ fuel_rows = init_database_rows({})
    /\ fuel_read = Null
    /\ fuel_updated = Null

SpecRecovery == InitRecovery /\ [][Next]_vars

----------------------------------------------------------------------------
\* The repository used by several processes at once, each on its own sqlite
\* connection.  end_session is three steps: the SELECT with the clock read
\* (lines 191-207), get_fuel_config (line 209), and the UPDATE with the
\* commit (lines 212-232, 35).

SessionIds == 1..(MaxSessions + 1)
\* The two shapes of call the program makes: (bright_pixels, None) from
\* _handle_state_change and (0, "system stopped") from stop().
EndSessionArgs == {<<1, Null>>, <<0, StopNote>>}
FuelRates == {15, 20}

LedgerUnchanged ==
    UNCHANGED <<events, current_state, active_session_id, is_running,
                start_time, state_change_count, pc, frame, bright_pixels,
                session_ret, stop_caller, connected, notified, history,
                outside>>

EndCallsMade == client[1].calls + client[2].calls

\* A client back from a call: its locals are gone.
Returned(c) == [IdleClient EXCEPT !.calls = client[c].calls]

\* start_session by a client.
LStartSession(c) ==
    /\ client[c].pc = "idle"
    /\ Len(sessions) < MaxSessions
    /\ sessions' = start_session(sessions, now, min_bright_pixels).sessions
    /\ UNCHANGED <<fuel_config, now, client>>
    /\ LedgerUnchanged

\* end_session, lines 189-207, a row is found: start_time is parsed and the
\* clock is read.
LEndSessionSelect(c) ==
    /\ client[c].pc = "idle"
    /\ EndCallsMade < MaxEndCalls
    /\ \E id \in SessionIds, args \in EndSessionArgs :
          /\ select_start_time(sessions, id) # Null
          /\ client' = [client EXCEPT ![c] =
                  [pc |-> "es_fuel", id |-> id, bp |-> args[1],
                   notes |-> args[2],
                   row |-> parse_db_datetime(select_start_time(sessions, id)),
                   end_time |-> now, cfg |-> DefaultFuelConfig,
                   saw_open |-> IsOpen(sessions[id]),
                   calls |-> @.calls + 1]]
    /\ UNCHANGED <<sessions, fuel_config, now>>
    /\ LedgerUnchanged

\* end_session, lines 189-199, no row with that id: logged, returns.
LEndSessionNotFound(c) ==
    /\ client[c].pc = "idle"
    /\ EndCallsMade < MaxEndCalls
    /\ \E id \in SessionIds :
          /\ select_start_time(sessions, id) = Null
          /\ client' = [client EXCEPT ![c] =
                  [Returned(c) EXCEPT !.id = id, !.calls = @ + 1]]
    /\ UNCHANGED <<sessions, fuel_config, now>>
    /\ LedgerUnchanged

\* end_session, line 209: get_fuel_config().
LEndSessionFuel(c) ==
    /\ client[c].pc = "es_fuel"
    /\ client' = [client EXCEPT ![c].pc = "es_update", ![c].cfg = fuel_config]
    /\ UNCHANGED <<sessions, fuel_config, now>>
    /\ LedgerUnchanged

\* end_session, lines 212-232 and the commit.
LEndSessionUpdate(c) ==
    /\ client[c].pc = "es_update"
    /\ sessions' = update_session(sessions, client[c].id, Val(client[c].row),
                                  client[c].end_time, client[c].cfg,
                                  client[c].bp, client[c].notes)
    /\ client' = [client EXCEPT ![c] = Returned(c)]
    /\ UNCHANGED <<fuel_config, now>>
    /\ LedgerUnchanged

\* end_session: the UPDATE or the commit raises sqlite3.Error; rollback.
LEndSessionUpdateFails(c) ==
    /\ client[c].pc = "es_update"
    /\ client' = [client EXCEPT ![c] = Returned(c)]
    /\ UNCHANGED <<sessions, fuel_config, now>>
    /\ LedgerUnchanged

\* update_fuel_config by a client.
LUpdateFuelConfig(c) ==
    /\ client[c].pc = "idle"
    /\ \E rate \in FuelRates \ {fuel_config.fuel_rate_per_hour} :
          fuel_config' = [fuel_config EXCEPT !.fuel_rate_per_hour = rate]
    /\ UNCHANGED <<sessions, now, client>>
    /\ LedgerUnchanged

\* Time passes.
LClockTick ==
    /\ now < 2 + MaxLedgerTime
    /\ now' = now + 1
    /\ UNCHANGED <<sessions, fuel_config, client>>
    /\ LedgerUnchanged

NextLedger ==
    \/ \E c \in Clients : LStartSession(c)
    \/ \E c \in Clients : LEndSessionSelect(c)
    \/ \E c \in Clients : LEndSessionNotFound(c)
    \/ \E c \in Clients : LEndSessionFuel(c)
    \/ \E c \in Clients : LEndSessionUpdate(c)
    \/ \E c \in Clients : LEndSessionUpdateFails(c)
    \/ \E c \in Clients : LUpdateFuelConfig(c)
    \/ LClockTick

SpecLedger == Init /\ [][NextLedger]_vars

----------------------------------------------------------------------------
\* main(): the components are constructed in order (main.py:49-54), and a
\* constructed detector is handed frames.  No monitor object exists here.

InitStartup ==
    /\ sessions = <<>>
    /\ events = <<>>
    /\ fuel_config = DefaultFuelConfig
    /\ now = 2
    /\ current_state = UNKNOWN
    /\ active_session_id = Null
    /\ is_running = FALSE
    /\ start_time = Null
    /\ state_change_count = 0
    /\ pc = "init"
    /\ frame = Null
    /\ bright_pixels = 0
    /\ session_ret = Null
    /\ stop_caller = "none"
    /\ connected = FALSE
    /\ notified = <<>>
    /\ client = [c \in Clients |-> IdleClient]
    /\ ticks = 0
    /\ faults = 0
    /\ classified = <<>>
    /\ handled = <<>>
    /\ recovered = Null
    /\ end_calls = <<>>
    /\ start_calls = <<>>
    /\ interrupted_at = Null
    /\ main_pc = "construct_detector"
    /\ detection_config \in DetectionConfigs
    /\ telegram_config \in TelegramConfigs
    /\ det_frame = Null
    /\ det_result = Null
    /\ daily_stats = Null
    /\ month_stats = Null
    /\ month_report = Null
    /\ fuel_rows = init_database_rows({})
    /\ fuel_read = Null
    /\ fuel_updated = Null

StartupUnchanged ==
    UNCHANGED <<ledger, now, monitor, client, history, detection_config,
                telegram_config, daily_stats, month_stats, month_report,
                fuel_rows, fuel_read, fuel_updated>>

\* main.py:50, BrightSpotDetector.__init__: validate() returns.
ConstructDetector ==
    /\ main_pc = "construct_detector"
    /\ DetectionConfig_validate(detection_config)
    /\ main_pc' = "construct_notifier"
    /\ UNCHANGED <<det_frame, det_result>>
    /\ StartupUnchanged

\* main.py:50: validate() raises ValueError, which leaves main().
ConstructDetectorRejects ==
    /\ main_pc = "construct_detector"
    /\ ~DetectionConfig_validate(detection_config)
    /\ main_pc' = "rejected"
    /\ UNCHANGED <<det_frame, det_result>>
    /\ StartupUnchanged

\* main.py:51, TelegramNotifier.__init__: validate() returns.
ConstructNotifier ==
    /\ main_pc = "construct_notifier"
    /\ TelegramConfig_validate(telegram_config)
    /\ main_pc' = "construct_monitor"
    /\ UNCHANGED <<det_frame, det_result>>
    /\ StartupUnchanged

\* main.py:51: validate() raises ValueError, which leaves main().
ConstructNotifierRejects ==
    /\ main_pc = "construct_notifier"
    /\ ~TelegramConfig_validate(telegram_config)
    /\ main_pc' = "rejected"
    /\ UNCHANGED <<det_frame, det_result>>
    /\ StartupUnchanged

\* main.py:54: GeneratorMonitor is called with four of its five required
\* arguments (db_repository is missing): TypeError leaves main() before
\* line 57, start() is not reached.
ConstructMonitorFails ==
    /\ main_pc = "construct_monitor"
    /\ main_pc' = "type_error"
    /\ UNCHANGED <<det_frame, det_result>>
    /\ StartupUnchanged

\* detect(frame) on the constructed detector.
Detect ==
    /\ main_pc = "construct_monitor"
    /\ \E f \in DetFrames :
          /\ det_frame' = Some(f)
          /\ det_result' \in
                 {Some(r) : r \in BrightSpotDetector_detect(detection_config, f)}
    /\ UNCHANGED main_pc
    /\ StartupUnchanged

NextStartup ==
    \/ ConstructDetector
    \/ ConstructDetectorRejects
    \/ ConstructNotifier
    \/ ConstructNotifierRejects
    \/ ConstructMonitorFails
    \/ Detect

SpecStartup == InitStartup /\ [][NextStartup]_vars

----------------------------------------------------------------------------
\* StatisticsService over a ledger that holds many sessions.  The ledger
\* was filled by earlier runs: sessions of day 0, then sessions of day 1,
\* the last of which may still be open; it is now day 2.

MaxOldSessions == 2     \* sessions of day 0 in the initial ledger

\* A session as start_session and end_session leave it.
OpenSession(t) == start_session(<<>>, t, min_bright_pixels).sessions[1]
ClosedSession(t, e) ==
    end_session(<<OpenSession(t)>>, DefaultFuelConfig, e, 1, 0, Null)[1]

StatsLedger(old, new, last_open) ==
    [i \in 1..(old + new) |->
        IF i <= old
        THEN ClosedSession(i, 2 * i)
        ELSE IF i = old + new /\ last_open
             THEN OpenSession(TicksPerDay + i)
             ELSE ClosedSession(TicksPerDay + i, TicksPerDay + i + 1)]

NewCounts == {0, 1, StatsLimit - 1, StatsLimit}
StatsLedgers ==
    {StatsLedger(old, new, last_open) :
        old \in 0..MaxOldSessions, new \in NewCounts, last_open \in BOOLEAN}
FuelPrices == {500, 520}
StatsDates == 0..2

InitStatistics ==
    /\ sessions \in StatsLedgers
    /\ events = <<>>
    /\ fuel_config \in {[DefaultFuelConfig EXCEPT !.fuel_price_per_liter = p] :
                           p \in FuelPrices}
    /\ now = 2 * TicksPerDay
    /\ current_state = UNKNOWN
    /\ active_session_id = Null
    /\ is_running = FALSE
    /\ start_time = Null
    /\ state_change_count = 0
    /\ pc = "init"
    /\ frame = Null
    /\ bright_pixels = 0
    /\ session_ret = Null
    /\ stop_caller = "none"
    /\ connected = FALSE
    /\ notified = <<>>
    /\ client = [c \in Clients |-> IdleClient]
    /\ ticks = 0
    /\ faults = 0
    /\ classified = <<>>
    /\ handled = <<>>
    /\ recovered = Null
    /\ end_calls = <<>>
    /\ start_calls = <<>>
    /\ interrupted_at = Null
    /\ main_pc = "monitor_built"
    /\ detection_config = MainDetectionConfig
    /\ telegram_config = EnvTelegramConfig
    /\ det_frame = Null
    /\ det_result = Null
    /\ daily_stats = Null
    /\ month_stats = Null
    /\ month_report = Null
    /\ fuel_rows = init_database_rows({})
    /\ fuel_read = Null
    /\ fuel_updated = Null

StatisticsUnchanged ==
    UNCHANGED <<events, fuel_config, now, monitor, client, history, main_pc,
                detection_config, telegram_config, det_frame, det_result,
                fuel_rows, fuel_read, fuel_updated>>

\* start_session, before any statistics are asked for: today's first.
StatsStartSession ==
    /\ daily_stats = Null
    /\ month_stats = Null
    /\ OpenIds(sessions) = {}
    /\ {i \in DOMAIN sessions :
            date_of(sessions[i].start_time) >= date_of(now)} = {}
    /\ sessions' = start_session(sessions, now, min_bright_pixels).sessions
    /\ UNCHANGED <<daily_stats, month_stats, month_report>>
    /\ StatisticsUnchanged

\* end_session of the open session, before any statistics are asked for.
StatsEndSession ==
    /\ daily_stats = Null
    /\ month_stats = Null
    /\ \E id \in OpenIds(sessions) :
          sessions' = end_session(sessions, fuel_config, now, id, 0, Null)
    /\ UNCHANGED <<daily_stats, month_stats, month_report>>
    /\ StatisticsUnchanged

\* _get_stats_for_date(date)
GetStatsForDate ==
    /\ \E date \in StatsDates :
          daily_stats' = Some(get_stats_for_date(sessions, fuel_config, date))
    /\ UNCHANGED <<sessions, month_stats, month_report>>
    /\ StatisticsUnchanged

\* get_formatted_report("month"): get_month_stats, then
\* _format_month_report.
StatsMonths == 0..1
GetMonthReport ==
    /\ \E month \in StatsMonths :
          LET stats == get_month_stats(sessions, fuel_config, month)
          IN  /\ month_stats' = Some(stats)
              /\ month_report' = Some(format_month_report(stats))
    /\ UNCHANGED <<sessions, daily_stats>>
    /\ StatisticsUnchanged

NextStatistics ==
    \/ StatsStartSession
    \/ StatsEndSession
    \/ GetStatsForDate
    \/ GetMonthReport

SpecStatistics == InitStatistics /\ [][NextStatistics]_vars

----------------------------------------------------------------------------
\* The fuel_config table under the calls of the repository: the
\* administrative update_fuel_config and get_fuel_config, a further
\* DatabaseRepository constructed on the same file, and the ledger calls of
\* the monitor.

FuelConfigs ==
    [fuel_rate_per_hour : FuelRates, fuel_tank_capacity : {200, 400},
     fuel_price_per_liter : FuelPrices]

FuelUnchanged ==
    UNCHANGED <<monitor, client, ticks, classified, handled, recovered,
                end_calls, start_calls, interrupted_at, main_pc,
                detection_config, telegram_config, det_frame, det_result,
                daily_stats, month_stats, month_report>>

\* DatabaseRepository(db_path) on the existing file: _init_database.
FInitDatabase ==
    /\ fuel_rows' = init_database_rows(fuel_rows)
    /\ fuel_config' = init_database_config(fuel_rows, fuel_config)
    /\ UNCHANGED <<sessions, events, now, faults, fuel_read, fuel_updated>>
    /\ FuelUnchanged

\* update_fuel_config(config) commits.
FUpdateFuelConfig ==
    /\ \E config \in FuelConfigs :
          /\ fuel_config' = update_fuel_config(fuel_rows, fuel_config, config)
          /\ fuel_updated' = Some(config)
    /\ UNCHANGED <<sessions, events, now, faults, fuel_rows, fuel_read>>
    /\ FuelUnchanged

\* update_fuel_config raises sqlite3.Error: rolled back.
FUpdateFuelConfigFails ==
    /\ CanFault
    /\ faults' = faults + 1
    /\ UNCHANGED <<sessions, events, fuel_config, now, fuel_rows, fuel_read,
                   fuel_updated>>
    /\ FuelUnchanged

\* get_fuel_config()
FGetFuelConfig ==
    /\ fuel_read' = Some(get_fuel_config(fuel_rows, fuel_config))
    /\ UNCHANGED <<sessions, events, fuel_config, now, faults, fuel_rows,
                   fuel_updated>>
    /\ FuelUnchanged

\* start_session(bright_pixels)
FStartSession ==
    /\ Len(sessions) < MaxSessions
    /\ sessions' = start_session(sessions, now, min_bright_pixels).sessions
    /\ UNCHANGED <<events, fuel_config, now, faults, fuel_rows, fuel_read,
                   fuel_updated>>
    /\ FuelUnchanged

\* end_session(id, 0) of an open session, which reads the FuelConfig.
FEndSession ==
    /\ \E id \in OpenIds(sessions) :
          sessions' = end_session(sessions,
                                  get_fuel_config(fuel_rows, fuel_config),
                                  now, id, 0, Null)
    /\ UNCHANGED <<events, fuel_config, now, faults, fuel_rows, fuel_read,
                   fuel_updated>>
    /\ FuelUnchanged

\* add_event("ON", ...): the statement is refused, nothing is stored.
FAddEvent ==
    /\ events' = add_event(events, now, "ON", min_bright_pixels, "on").events
    /\ UNCHANGED <<sessions, fuel_config, now, faults, fuel_rows, fuel_read,
                   fuel_updated>>
    /\ FuelUnchanged

NextFuel ==
    \/ FInitDatabase
    \/ FUpdateFuelConfig
    \/ FUpdateFuelConfigFails
    \/ FGetFuelConfig
    \/ FStartSession
    \/ FEndSession
    \/ FAddEvent
    \/ LClockTick

SpecFuel == Init /\ [][NextFuel]_vars

----------------------------------------------------------------------------
\* Properties of the monitor (specification Spec).

HandlingPcs == {"hsc_snapshot", "hsc_db", "hsc_assign", "hsc_clear", "hsc_event"}

Disagreements(seq) ==
    Cardinality({i \in 1..(Len(seq) - 1) : seq[i] # seq[i + 1]})
BecameOn(seq) ==
    Cardinality({i \in 1..Len(seq) : seq[i] = ON /\ (i = 1 \/ seq[i - 1] = OFF)})
\* Sessions this run of the monitor created.
CreatedIds ==
    {i \in DOMAIN sessions :
        start_time # Null /\ sessions[i].start_time >= Val(start_time)}
Scenario == <<OFF, OFF, ON, ON, OFF>>

\* C1: after start() and after every tick the ledger holds at most one
\* session whose end_time is null.
C1_AtMostOneOpenSession ==
    pc \in BetweenTicksPcs => Cardinality(OpenIds(sessions)) <= 1

\* C2: a tick whose classified state equals the current state (ON or OFF)
\* fires no transition: from the loop head to the end of the tick no session
\* is created or closed, no event appended, no notification sent, and the
\* state-change counter, the state and the active-session handle stay.
C2_Debounce ==
    [][/\ (/\ pc = "process"
           /\ pc' # "stop"
           /\ current_state \in {ON, OFF}
           /\ new_state_of(Val(frame)) = current_state)
          => /\ pc' = "sleep"
             /\ UNCHANGED <<sessions, events, notified, state_change_count,
                            active_session_id, current_state, handled>>
       /\ pc \in {"loop", "connect", "get_frame"}
          => UNCHANGED <<sessions, events, notified, state_change_count,
                         active_session_id, current_state, handled>>]_vars

C2_Witness ==
    /\ pc = "sleep"
    /\ current_state = ON
    /\ active_session_id # Null
    /\ Len(classified) >= 2
    /\ classified[Len(classified)] = classified[Len(classified) - 1]

\* C3: a session id returned by get_active_session() in start() is adopted
\* as the active session, start_session is not called before an ON
\* transition, and the first end_session call the monitor makes is on the
\* recovered id.
C3_RecoveredSessionReused ==
    recovered # Null =>
        /\ pc = "startup_notify" => active_session_id = recovered
        /\ \A k \in DOMAIN start_calls :
              /\ classified[start_calls[k]] = ON
              /\ start_calls[k] = 1 \/ classified[start_calls[k] - 1] = OFF
        /\ end_calls # <<>> => end_calls[1] = Val(recovered)

\* C5: every handled state change appended exactly one event, of the type
\* of the new state and with the bright-pixel count of its frame; OFF, OFF,
\* ON, ON, OFF leaves three events.
C5_OneEventPerStateChange ==
    pc \in BetweenTicksPcs =>
        /\ Len(events) = Len(handled)
        /\ \A i \in DOMAIN events :
              /\ events[i].event_type = (IF handled[i][1] = ON THEN "ON" ELSE "OFF")
              /\ events[i].bright_pixels = handled[i][2]
        /\ classified = Scenario => Len(events) = 3

\* C6: with no recovered session the state-change counter equals the number
\* of adjacent disagreements of the classification sequence (the seeding
\* assignment is not counted), and, when no storage or snapshot fault cut a
\* tick short, the sessions created are as many as the times the state
\* became ON; OFF, OFF, ON, ON, OFF gives 2 counted transitions and one
\* session, created and closed.
C6_CountsMatchClassifications ==
    recovered = Null =>
        /\ state_change_count = Disagreements(classified)
        /\ (pc \in BetweenTicksPcs /\ faults = 0) =>
              /\ Cardinality(CreatedIds) = BecameOn(classified)
              /\ classified = Scenario =>
                    /\ state_change_count = 2
                    /\ Cardinality(CreatedIds) = 1
                    /\ \A i \in CreatedIds : ~IsOpen(sessions[i])

C6_Witness ==
    /\ pc = "backoff"
    /\ recovered = Null
    /\ faults = 0
    /\ classified = Scenario
    /\ state_change_count = 2

\* C7: an exception raised inside a tick leads to the backoff with the
\* monitor still running, the backoff leads back to the loop head, and the
\* loop is left only on a stop request.
RaisesInTick ==
    /\ pc \in TickPcs
    /\ faults' > faults \/ (pc = "hsc_event" /\ ~add_event_statement_ok /\ pc' # "stop")

C7_LoopSurvivesErrors ==
    [][/\ RaisesInTick => pc' = "backoff" /\ is_running'
       /\ pc = "backoff" => pc' = "loop" \/ (pc' = "stop" /\ interrupted_at' # Null)
       /\ (pc \in TickPcs \cup BetweenTicksPcs /\ pc' \notin TickPcs \cup BetweenTicksPcs)
             => (pc' = "stop" /\ interrupted_at' # Null)
       /\ pc \in TickPcs \cup BetweenTicksPcs => is_running]_vars

C7_Witness ==
    /\ pc = "process"
    /\ faults > 0
    /\ handled # <<>>
    /\ interrupted_at = Null
    /\ is_running

\* C8: stop() with a session held force-closes it (end_time, duration, fuel,
\* note "system stopped"), then disconnects the frame source, then sends the
\* shutdown notification with the state-change count; after stop() has
\* returned the ledger holds no open session.  Stated for runs without any
\* storage or snapshot fault.
ShutdownSent == \E i \in DOMAIN notified : notified[i].kind = "shutdown"

C8_StopForceCloses ==
    faults = 0 =>
        /\ (pc \in {"stop_disconnect", "stop_notify", "stopped"}
               /\ active_session_id # Null)
              => LET s == sessions[Val(active_session_id)]
                 IN  /\ s.end_time # Null
                     /\ s.duration_seconds # Null
                     /\ s.duration_hours # Null
                     /\ s.fuel_consumption_liters # Null
                     /\ s.notes = StopNote
        /\ pc \in {"stop_notify", "stopped"} => ~connected
        /\ pc \in {"stop", "stop_disconnect", "stop_notify"} => ~ShutdownSent
        /\ pc = "stopped" =>
              /\ notified # <<>>
              /\ notified[Len(notified)].kind = "shutdown"
              /\ notified[Len(notified)].state_change_count = state_change_count
              /\ OpenIds(sessions) = {}

\* C9: the stop signal is acted on only between ticks: the shutdown path
\* never runs for a signal taken while a tick was handling a transition, and
\* never sees a session this run committed but the monitor does not hold.
C9_StopOnlyBetweenTicks ==
    (pc \in StopPcs /\ interrupted_at # Null) =>
        /\ Val(interrupted_at) \notin HandlingPcs
        /\ (pc = "stop" /\ faults = 0) =>
              \A i \in CreatedIds \cap OpenIds(sessions) : active_session_id = Some(i)

----------------------------------------------------------------------------
\* Properties of the ledger (specification SpecLedger).

EndSessionReturns(c) ==
    client[c].pc = "es_update" /\ client'[c].pc = "idle"

\* C4: end_session with an id that does not exist, or with the id of a
\* session that was closed when the call began, changes no session.
C4_EndSessionOnClosedIsNoOp ==
    [][\A c \in Clients :
          /\ (EndSessionReturns(c) /\ ~client[c].saw_open) => sessions' = sessions
          /\ (client[c].pc = "idle" /\ client'[c].pc = "idle"
                 /\ client'[c].calls > client[c].calls) => sessions' = sessions]_vars

\* C10: of two end_session calls that both began while the session was
\* open, the one that writes second does not overwrite what the first wrote.
C10_ConcurrentEndSessionClosesOnce ==
    [][\A c \in Clients :
          (/\ EndSessionReturns(c)
           /\ client[c].saw_open
           /\ ~IsOpen(sessions[client[c].id]))
          => sessions'[client[c].id] = sessions[client[c].id]]_vars

\* C11: in every ledger state, also after an UPDATE that failed and was
\* rolled back, each session is fully open (end_time, duration_seconds,
\* duration_hours, fuel_consumption_liters all NULL) or fully closed (all
\* four set).
FullyOpen(s) ==
    /\ s.end_time = Null
    /\ s.duration_seconds = Null
    /\ s.duration_hours = Null
    /\ s.fuel_consumption_liters = Null

FullyClosed(s) ==
    /\ s.end_time # Null
    /\ s.duration_seconds # Null
    /\ s.duration_hours # Null
    /\ s.fuel_consumption_liters # Null

C11_SessionsOpenOrClosed ==
    \A i \in DOMAIN sessions : FullyOpen(sessions[i]) \/ FullyClosed(sessions[i])

\* A client's only end_session call found the row (its id local is reset
\* on return), and the session is still open: its UPDATE was rolled back.
C11_Witness ==
    /\ sessions # <<>>
    /\ \A i \in DOMAIN sessions : FullyOpen(sessions[i])
    /\ \E c \in Clients :
          client[c].pc = "idle" /\ client[c].calls = 1 /\ client[c].id = 0

\* C12: start_session followed by end_session of the returned id with no
\* clock advance in between gives a closed session with duration_seconds 0
\* and fuel_consumption_liters 0, whatever the fuel rate.
ClosedAtStart(s) == s.end_time = Some(s.start_time)

C12_RoundTripIsZero ==
    \A i \in DOMAIN sessions :
        ClosedAtStart(sessions[i]) =>
            /\ sessions[i].duration_seconds = Some(0)
            /\ sessions[i].fuel_consumption_liters = Some(0)

\* A session started by a client in this run (the earlier run's began at
\* time 0) and closed at the time it started, under the non-default rate.
C12_Witness ==
    \E i \in DOMAIN sessions :
        /\ sessions[i].start_time = now
        /\ ClosedAtStart(sessions[i])
        /\ fuel_config.fuel_rate_per_hour # DefaultFuelConfig.fuel_rate_per_hour

----------------------------------------------------------------------------
\* Properties of the detector and of construction (specification
\* SpecStartup).

DetectCalled == det_result # Null

\* C13: for a validated configuration and every frame, also one on which
\* processing fails, detect returns confidence >= 0 and
\* is_on = (confidence >= min_bright_pixels).
C13_DetectRelation ==
    DetectCalled =>
        /\ Val(det_result)[2] >= 0
        /\ Val(det_result)[1] =
               (Val(det_result)[2] >= detection_config.min_bright_pixels)

\* The region of interest is not inside the frame.
RoiOutOfBounds(cfg, f) ==
    \/ cfg.roi[1] < 0
    \/ cfg.roi[2] < 0
    \/ cfg.roi[1] + cfg.roi[3] > Len(f.rows[1])
    \/ cfg.roi[2] + cfg.roi[4] > Len(f.rows)

\* C14: detect does not raise, and for a malformed frame or a region of
\* interest that is zero-sized or out of the frame's bounds it returns
\* (false, 0).
C14_FaultGivesFalseZero ==
    (/\ DetectCalled
     /\ \/ Val(det_frame) = NoFrame
        \/ RoiOutOfBounds(detection_config, Val(det_frame))
        \/ IsEmptyRoi(extract_roi(detection_config, Val(det_frame))))
    => det_result = Some(<<FALSE, 0>>)

----------------------------------------------------------------------------
\* Properties of the monitor's notifications (specification Spec).

Sent(kind) == Cardinality({i \in DOMAIN notified : notified[i].kind = kind})

\* C15: every handled state change is followed within its tick by exactly
\* one text and one image notification, dispatched after the ledger writes
\* of the transition (the session write, then the event).  Stated for runs
\* in which no storage or snapshot fault was injected.
C15_NotificationsFollowHandling ==
    /\ (pc \in BetweenTicksPcs /\ faults = 0) =>
          /\ Sent("state_text") = Len(handled)
          /\ Sent("state_image") = Len(handled)
    /\ Sent("state_text") <= Len(events)
    /\ Sent("state_image") <= Len(events)

\* end_session calls of the handler that left a session closed with a
\* non-zero duration, and text notifications that carry the statistics of
\* a last session.
ClosedWithDuration ==
    {i \in DOMAIN end_calls :
        /\ end_calls[i] \in DOMAIN sessions
        /\ or_zero(sessions[end_calls[i]].duration_hours) > 0}
WithSessionStats ==
    {i \in DOMAIN notified :
        /\ notified[i].kind = "state_text"
        /\ notified[i].message.last_session # Null}

\* C16: the message of a transition into OFF that closed a session with
\* non-zero duration carries the statistics of that session (duration,
\* fuel, cost).  Stated for runs in which no fault was injected.
C16_OffMessageHasSessionStats ==
    (pc \in BetweenTicksPcs /\ faults = 0) =>
        Cardinality(WithSessionStats) = Cardinality(ClosedWithDuration)

\* A start_session or end_session call of the handler raised: a call that
\* created no session, or a call whose session is still open.
StorageWriteFailed ==
    \/ Len(start_calls) > Cardinality(CreatedIds)
    \/ \E i \in DOMAIN end_calls :
          end_calls[i] \in DOMAIN sessions /\ IsOpen(sessions[end_calls[i]])

\* C17: after a storage error in a transition's ledger write and the
\* backoff, the write is retried: when a later tick has completed, a
\* monitor in state ON has an open session in the ledger and holds it, and
\* a monitor in state OFF has none.
C17_StorageErrorRetried ==
    (pc = "sleep" /\ StorageWriteFailed) =>
        /\ current_state = ON =>
              /\ active_session_id # Null
              /\ Val(active_session_id) \in OpenIds(sessions)
        /\ current_state = OFF => OpenIds(sessions) = {}

\* A step in which the notifier was called and returned false.
FailedNotification ==
    /\ notified' # notified
    /\ \E i \in (Len(notified) + 1)..Len(notified') : ~notified'[i].ok

\* The step raises nothing into the monitor and leaves DetectionState, the
\* handle and the sessions as they were.
FailureIsHarmless ==
    /\ pc' \notin {"backoff", "crashed"}
    /\ current_state' = current_state
    /\ active_session_id' = active_session_id
    /\ sessions' = sessions
    /\ fuel_config' = fuel_config

\* No notification is sent twice.
NothingResent ==
    /\ Sent("startup") <= 1
    /\ Sent("shutdown") <= 1
    /\ Sent("state_text") <= Len(handled)
    /\ Sent("state_image") <= Len(handled)

----------------------------------------------------------------------------
\* Properties of the statistics (specification SpecStatistics).

\* C19: for any ledger and any date the daily statistics count exactly the
\* sessions whose start_time falls on the date; total runtime and total
\* fuel are the sums of duration_hours and fuel_consumption_liters over
\* them, a null counting as zero; cost is total fuel times the current
\* fuel price; the average is total runtime over the count, 0 when the
\* count is 0.
C19_DailyStatsExact ==
    daily_stats # Null =>
        LET st == Val(daily_stats)
            on_date(i) == date_of(sessions[i].start_time) = st.date
            count == Cardinality({i \in DOMAIN sessions : on_date(i)})
            runtime == Sum([i \in DOMAIN sessions |->
                              IF on_date(i)
                              THEN or_zero(sessions[i].duration_hours) ELSE 0])
            fuel == Sum([i \in DOMAIN sessions |->
                           IF on_date(i)
                           THEN or_zero(sessions[i].fuel_consumption_liters)
                           ELSE 0])
        IN  /\ st.sessions_count = count
            /\ st.total_runtime_hours = runtime
            /\ st.total_fuel_liters = fuel
            /\ st.total_cost = fuel * fuel_config.fuel_price_per_liter
            /\ IF count = 0
               THEN st.avg_session_duration[1] = 0
               ELSE st.avg_session_duration[1] * count
                        = runtime * st.avg_session_duration[2]

InvalidDetection ==
    \/ detection_config.roi[3] < 1
    \/ detection_config.roi[4] < 1
    \/ detection_config.bright_threshold \notin 0..255
    \/ detection_config.min_bright_pixels \notin Nat
InvalidTelegram ==
    \/ telegram_config.bot_token \in {"", "YOUR_BOT_TOKEN_HERE"}
    \/ telegram_config.chat_id \in {"", "YOUR_CHAT_ID_HERE"}
DetectorConstructed ==
    main_pc \in {"construct_notifier", "construct_monitor", "type_error"}
NotifierConstructed == main_pc \in {"construct_monitor", "type_error"}

\* C20: a detection configuration with a non-positive ROI width or height, a
\* threshold outside [0,255] or a negative min_bright_pixels never gets a
\* detector constructed, a notifier configuration with an empty or
\* placeholder credential never gets a notifier constructed, and with either
\* the monitor loop is not started.
C20_InvalidConfigRejected ==
    /\ InvalidDetection => ~DetectorConstructed
    /\ InvalidTelegram => ~NotifierConstructed
    /\ (InvalidDetection \/ InvalidTelegram) => (pc = "init" /\ ~is_running)
\* A notifier configuration was rejected after the detector was constructed.
C20_Witness ==
    main_pc = "rejected" /\ ~InvalidDetection /\ InvalidTelegram

----------------------------------------------------------------------------
\* Properties of the loop's handling of the frame source (specification
\* Spec).

\* What a tick that processes no frame must leave alone: DetectionState, the
\* counter, the handle, the ledger, and the record of detector calls.
FrameEffects ==
    <<current_state, state_change_count, active_session_id, sessions, events,
      fuel_config, classified, handled>>

\* connect() has returned false; get_frame() has returned no frame.
ConnectFailed == pc = "connect" /\ pc' # "stop" /\ ~connected'
NoFrameRead == pc = "get_frame" /\ pc' # "stop" /\ frame' = Null

\* C21: a tick on which connect() fails, or on which get_frame() returns no
\* frame, goes to the reconnect wait and from there to the next tick without
\* calling the detector, and no step of it changes DetectionState, the
\* state-change counter, the active-session handle or the ledger.
C21_NoFrameNoEffect ==
    [][/\ (ConnectFailed \/ NoFrameRead)
             => (pc' = "reconnect_sleep" /\ UNCHANGED FrameEffects)
       /\ pc = "reconnect_sleep"
             => (pc' \in {"loop", "stop"} /\ UNCHANGED FrameEffects)
       /\ (pc = "loop" /\ pc' \in {"connect", "get_frame"})
             => UNCHANGED FrameEffects
       /\ (pc = "connect" /\ pc' = "get_frame") => UNCHANGED FrameEffects]_vars

\* The monitor is ON and holds a session, a frame was processed earlier, and
\* the tick in progress has ended in the reconnect wait.
C21_Witness ==
    /\ pc = "reconnect_sleep"
    /\ current_state = ON
    /\ active_session_id # Null
    /\ state_change_count > 0

\* C22: when get_frame() returns no frame the frame source is disconnected
\* in that step, it stays disconnected through the reconnect wait, the next
\* tick of a disconnected source calls connect(), and get_frame() is only
\* called on a connected source.
C22_NoFrameForcesReconnect ==
    /\ [][NoFrameRead => ~connected']_vars
    /\ [](pc = "reconnect_sleep" => ~connected)
    /\ [][(pc = "loop" /\ pc' \in TickPcs /\ ~connected) => pc' = "connect"]_vars
    /\ [](pc = "get_frame" => connected)

\* A frame was processed, so the source was connected; now connect() is
\* about to be called again: a later get_frame() returned no frame.
C22_Witness ==
    /\ pc = "connect"
    /\ classified # <<>>
    /\ ~connected

\* The state changes _process_frame may make.
StateChanges == {<<UNKNOWN, ON>>, <<UNKNOWN, OFF>>, <<ON, OFF>>, <<OFF, ON>>}

\* C23: DetectionState is UNKNOWN exactly as long as no frame has been
\* classified, whatever faults occur, and every change of it is one of
\* UNKNOWN->ON, UNKNOWN->OFF, ON->OFF, OFF->ON.
C23_UnknownNeverReentered ==
    /\ [](current_state = UNKNOWN <=> classified = <<>>)
    /\ [][current_state' # current_state
             => <<current_state, current_state'>> \in StateChanges]_vars

\* After a tick that was cut short by a fault and two more classified
\* frames, the monitor is between ticks.
C23_Witness ==
    /\ pc = "loop"
    /\ faults > 0
    /\ Len(classified) >= 3
    /\ current_state = OFF
    /\ interrupted_at = Null

\* The tick that has just ended classified OFF while the state was ON, in a
\* run without injected faults or stop signal.
OffReadingWhileOn ==
    /\ pc \in BetweenTicksPcs
    /\ faults = 0
    /\ interrupted_at = Null
    /\ Len(classified) >= 2
    /\ classified[Len(classified) - 1] = ON
    /\ classified[Len(classified)] = OFF

\* The transition was handled on that tick and the session the monitor held
\* is closed with the reading's bright-pixel count.
SessionClosedByReading ==
    /\ current_state = OFF
    /\ handled # <<>>
    /\ handled[Len(handled)][1] = OFF
    /\ active_session_id = Null
    /\ end_calls # <<>>
    /\ LET s == sessions[end_calls[Len(end_calls)]]
       IN  /\ ~IsOpen(s)
           /\ s.end_bright_pixels = Some(handled[Len(handled)][2])

\* An OFF event with the reading's bright-pixel count was recorded.
OffEventRecorded ==
    /\ events # <<>>
    /\ events[Len(events)].event_type = "OFF"
    /\ events[Len(events)].bright_pixels = handled[Len(handled)][2]

\* C24: a single OFF reading while the state is ON, also the (false, 0) of
\* a detector fault, fires the ON->OFF transition on that tick: the active
\* session is closed with that reading's confidence and an OFF event is
\* recorded.
C24_SingleOffReadingCloses ==
    OffReadingWhileOn => (SessionClosedByReading /\ OffEventRecorded)

----------------------------------------------------------------------------
\* Further properties of the ledger (specification SpecLedger).

\* The columns end_session computes, from the stored start_time, the time at
\* which the call read the clock and the fuel rate it read.
ClosedAsComputed(s, start, end, rate) ==
    /\ s.end_time = Some(end)
    /\ s.duration_seconds = Some((end - start) \div TicksPerSecond)
    /\ s.duration_hours = Some(end - start)
    /\ s.fuel_consumption_liters = Some((end - start) * rate)

\* C25: end_session on an open session reads the clock and then the
\* FuelConfig; its UPDATE, unless rolled back, sets end_time to the time
\* read, the durations to that time minus the stored start_time and the fuel
\* to duration_hours times the rate read; update_fuel_config changes no
\* session.
C25_ClosingUsesCurrentRate ==
    [][/\ \A c \in Clients :
             /\ (client[c].pc = "idle" /\ client'[c].pc = "es_fuel")
                   => client'[c].end_time = now
             /\ (client[c].pc = "es_fuel" /\ client'[c].pc = "es_update")
                   => client'[c].cfg = fuel_config
             /\ (EndSessionReturns(c) /\ IsOpen(sessions[client[c].id]))
                   => \/ sessions' = sessions
                      \/ ClosedAsComputed(sessions'[client[c].id],
                                          sessions[client[c].id].start_time,
                                          client[c].end_time,
                                          client[c].cfg.fuel_rate_per_hour)
       /\ fuel_config' # fuel_config => sessions' = sessions]_vars

\* A session was closed under the non-default rate with a non-zero
\* duration, and the rate has since been set back.
C25_Witness ==
    \E i \in DOMAIN sessions :
        /\ ~IsOpen(sessions[i])
        /\ Val(sessions[i].duration_hours) > 0
        /\ Val(sessions[i].fuel_consumption_liters)
               = Val(sessions[i].duration_hours) * 20
        /\ fuel_config.fuel_rate_per_hour = 15

----------------------------------------------------------------------------
\* Properties of crash recovery (specification SpecRecovery).

\* start() has called get_active_session() and gone on.
StartReturns == pc = "init" /\ pc' = "startup_notify"

\* C26: get_active_session returns none when the ledger holds no session
\* with a null end_time, and otherwise the id of the open session with the
\* latest start_time; its result is taken in start() and at no later point
\* of the run.
C26_ActiveSessionIsLatestOpen ==
    [][/\ StartReturns =>
             IF OpenIds(sessions) = {}
             THEN recovered' = Null
             ELSE /\ recovered' # Null
                  /\ Val(recovered') \in OpenIds(sessions)
                  /\ \A j \in OpenIds(sessions) :
                        sessions[j].start_time
                            <= sessions[Val(recovered')].start_time
       /\ recovered' # recovered => StartReturns
       /\ pc # "init" => recovered' = recovered]_vars

\* The ledger held two open sessions, the later one was recovered, and the
\* loop has run two ticks since.
C26_Witness ==
    /\ recovered = Some(2)
    /\ IsOpen(sessions[1])
    /\ ticks >= 2
    /\ pc = "loop"

----------------------------------------------------------------------------
\* Properties of the fuel_config table (specification SpecFuel).

\* The values get_fuel_config has to return: those of the last committed
\* update_fuel_config, or the initial defaults (1.5 l/h, 20 l, 50 per litre).
ExpectedFuelConfig ==
    IF fuel_updated = Null
    THEN [fuel_rate_per_hour |-> 15, fuel_tank_capacity |-> 200,
          fuel_price_per_liter |-> 500]
    ELSE Val(fuel_updated)

\* C27: after initialisation and any sequence of update_fuel_config,
\* start_session, end_session and add_event calls the fuel_config table holds
\* exactly one row, and get_fuel_config returns the values of the last
\* committed update_fuel_config, or the initial defaults when there was none.
C27_OneFuelConfigRow ==
    /\ [](Cardinality(fuel_rows) = 1)
    /\ [](get_fuel_config(fuel_rows, fuel_config) = ExpectedFuelConfig)
    /\ [][fuel_read' # fuel_read => fuel_read' = Some(ExpectedFuelConfig)]_vars

\* A configuration that differs from the defaults in every column was
\* committed, a later update failed, a session was closed, and
\* get_fuel_config has returned the committed values.
C27_Witness ==
    /\ fuel_updated # Null
    /\ fuel_read = fuel_updated
    /\ Val(fuel_read).fuel_rate_per_hour # DefaultFuelConfig.fuel_rate_per_hour
    /\ Val(fuel_read).fuel_tank_capacity # DefaultFuelConfig.fuel_tank_capacity
    /\ Val(fuel_read).fuel_price_per_liter # DefaultFuelConfig.fuel_price_per_liter
    /\ faults > 0
    /\ \E i \in DOMAIN sessions : sessions[i].end_time = Some(now)

----------------------------------------------------------------------------
\* Further properties of the detector (specification SpecStartup).

\* The pixels of the region of interest, by cell.
RoiPixels(cfg, f) ==
    LET roi == extract_roi(cfg, f)
    IN  [c \in RoiCells(roi) |-> roi.rows[c[1]][c[2]]]

\* Pixels of the region whose luminance is at or above the threshold, and
\* whose red channel is at or above the threshold less 50.
LuminanceAtOrAbove(cfg, f) ==
    LET px == RoiPixels(cfg, f)
    IN  Cardinality({c \in DOMAIN px :
            (IF f.kind = "bgr" THEN bgr2gray(px[c]) ELSE px[c])
                >= cfg.bright_threshold})
RedAtOrAbove(cfg, f) ==
    LET px == RoiPixels(cfg, f)
    IN  IF f.kind = "bgr"
        THEN Cardinality({c \in DOMAIN px : px[c][3] >= cfg.bright_threshold - 50})
        ELSE 0

\* detect was called on a frame with a region of interest that lies inside
\* it.
DetectedInsideFrame ==
    /\ DetectCalled
    /\ Val(det_frame) # NoFrame
    /\ ~RoiOutOfBounds(detection_config, Val(det_frame))

\* C28: the confidence detect returns is max(a, b), a the number of pixels
\* of the region whose luminance is at or above the threshold, b the number
\* whose red channel is at or above the threshold less 50, b being 0 for a
\* frame without colour channels; a pixel whose luminance equals the
\* threshold is counted.
C28_ConfidenceCountsAtOrAbove ==
    DetectedInsideFrame =>
        Val(det_result)[2] =
            Max(LuminanceAtOrAbove(detection_config, Val(det_frame)),
                RedAtOrAbove(detection_config, Val(det_frame)))

----------------------------------------------------------------------------
\* Further properties of the statistics (specification SpecStatistics).

\* The sessions of the ledger that start in the month, and on a date.
MonthSessions(month) ==
    {i \in DOMAIN sessions : month_of(date_of(sessions[i].start_time)) = month}
DateSessions(date) ==
    {i \in DOMAIN sessions : date_of(sessions[i].start_time) = date}
MonthDates(month) ==
    {date_of(sessions[i].start_time) : i \in MonthSessions(month)}

\* C29: the month report has one bucket per calendar day on which a session
\* of the month starts, each holding that day's sessions; the month's
\* runtime, fuel and session count are the sums over the buckets; and the
\* average per calendar day is the total runtime over the number of
\* distinct days that have sessions, 0 when the month has none.
C29_MonthReportBucketsByDay ==
    month_stats # Null =>
        LET ms == Val(month_stats)
            buckets == ms.daily_stats
            days == MonthDates(ms.month)
            avg == Val(month_report).avg_per_day
        IN  /\ {buckets[k].date : k \in DOMAIN buckets} = days
            /\ Len(buckets) = Cardinality(days)
            /\ \A k \in DOMAIN buckets :
                  buckets[k].sessions_count
                      = Cardinality(DateSessions(buckets[k].date))
            /\ ms.total_runtime_hours
                   = Sum([k \in DOMAIN buckets |-> buckets[k].total_runtime_hours])
            /\ ms.total_fuel_liters
                   = Sum([k \in DOMAIN buckets |-> buckets[k].total_fuel_liters])
            /\ ms.sessions_count
                   = Sum([k \in DOMAIN buckets |-> buckets[k].sessions_count])
            /\ IF days = {}
               THEN avg[1] = 0
               ELSE avg[1] * Cardinality(days) = ms.total_runtime_hours * avg[2]

----------------------------------------------------------------------------
\* Further properties of the monitor (specification Spec).

\* C30: between ticks DetectionState and the active-session handle agree,
\* whatever ledger call, snapshot rendering or notification has raised:
\* in state ON the handle holds a session id and in state OFF it is empty.
C30_StateAndHandleAgree ==
    pc \in BetweenTicksPcs =>
        /\ current_state = ON => active_session_id # Null
        /\ current_state = OFF => active_session_id = Null

\* C31: while the monitor is running, between ticks a handle that is not
\* empty names a session of the ledger whose end_time is null.
C31_HandleNamesOpenSession ==
    (pc \in BetweenTicksPcs /\ active_session_id # Null) =>
        /\ Val(active_session_id) \in DOMAIN sessions
        /\ sessions[Val(active_session_id)].end_time = Null

\* The handle names the session of a second start while the session of an
\* earlier one lies closed in the ledger.
C31_Witness ==
    /\ pc \in BetweenTicksPcs
    /\ is_running
    /\ active_session_id # Null
    /\ Val(active_session_id) \in OpenIds(sessions)
    /\ \E i \in DOMAIN sessions : ~IsOpen(sessions[i])

----------------------------------------------------------------------------
\* The monitor under fair scheduling (specification SpecLive).

\* The steps the monitor thread takes by itself: every statement of
\* start(), _main_loop, _process_frame, _handle_state_change and stop()
\* that returns normally.  The thread is not suspended for ever, so a step
\* that stays possible is taken; the stop signal and the faults of the
\* environment are under no such obligation.
MonitorStep ==
    \/ Start
    \/ SendStartupNotification
    \/ LoopHead
    \/ Connect
    \/ GetFrame
    \/ SleepCheckInterval
    \/ SleepReconnect
    \/ Backoff
    \/ ProcessFrame
    \/ SaveSnapshot
    \/ HscStartSession
    \/ HscAssign
    \/ HscEndSession
    \/ HscNoSession
    \/ HscClear
    \/ HscAddEvent
    \/ Stop
    \/ StopDisconnect
    \/ StopNotify

SpecLive == Init /\ [][Next]_vars /\ WF_vars(MonitorStep)

\* No storage call is made to fail.
StorageSucceeds == faults = 0

\* The monitor has classified a frame as OFF and is in that state, or
\* stop() has run to its end.
OffOrStopped == current_state = OFF \/ pc = "stopped"

\* C32: provided storage calls succeed and the monitor again and again
\* comes to classify a frame as OFF or to be stopped, every session that is
\* open in the ledger, opened by the monitor or found open at startup, is
\* eventually closed.
C32_EveryOpenSessionIsClosed ==
    ([]StorageSucceeds /\ []<>OffOrStopped) =>
        \A i \in 1..(MaxTicks + 1) :
            (i \in OpenIds(sessions)) ~> (i \notin OpenIds(sessions))

\* C33: however many sessions the ledger holds, the daily statistics count
\* every session of the ledger that starts on the queried date and the
\* monthly statistics count every session that starts in the queried month:
\* no session is dropped because newer sessions exist.
C33_StatisticsCoverWholeLedger ==
    /\ daily_stats # Null =>
          Val(daily_stats).sessions_count
              = Cardinality(DateSessions(Val(daily_stats).date))
    /\ month_stats # Null =>
          Val(month_stats).sessions_count
              = Cardinality(MonthSessions(Val(month_stats).month))

====
